---- MODULE Spec2Model ----
(***************************************************************************)
(* MsGraphService (src/src/services/msGraph.service.js): the token-gated   *)
(* request pipeline, uploadFile, signIn and logout of one client instance, *)
(* driven by a caller that awaits each call before it makes the next one.  *)
(* One action is one run-to-completion segment of the JavaScript code: a   *)
(* public method up to its first await, or the continuation that runs when *)
(* the awaited transport, prompt or filesystem call settles.               *)
(***************************************************************************)
EXTENDS Integers, Sequences, FiniteSets, TLC

\* null / undefined of a field or of a result
NULL == "null"

\* static #MAX_RETRIES = 3
MAX_RETRIES == 3

\* access tokens the authorization server may hand out
Tokens == {"tokA", "tokB"}

\* the refresh token the authorization server hands out with an access token
RefreshTokenOf(access) == IF access = "tokA" THEN "refA" ELSE "refB"

\* the `token` parameter of the constructor: left out, or an access token
TokenParams == {NULL, "tokA"}

\* the `client` parameter of the constructor: left out, empty, or an id
ClientParams == {NULL, "", "client-id"}

\* the `secret` parameter of the constructor: left out, empty, or a secret
SecretParams == {NULL, "", "client-secret"}

\* the parameters of the constructor the model looks at
Params == [client : ClientParams, secret : SecretParams, token : TokenParams]

\* authorization codes the user may type at the prompt
Codes == {"code1"}

\* HTTP verbs of requestGraphGet / Post / Put / Delete
Methods == {"GET", "POST", "PUT", "DELETE"}

\* the path 'me' of #getMyInfo, as a sequence of characters
MePath == <<"m", "e">>

\* paths the caller passes to requestGraphGet / Post / Put / Delete
RequestUrls == {<<"m", "e", "/", "d", "r", "i", "v", "e">>}

\* this.#sharepointFolder, left at its default 'me/drive/root'
SharepointFolder == <<"m", "e", "/", "d", "r", "i", "v", "e", "/", "r", "o", "o", "t">>

\* the folderName the caller passes to uploadFile
FolderNames == {<<"D", "o", "c", "s">>}

\* the file the caller passes to uploadFile: 'r.pdf', 'in/a b&c!', 'CON'
Files ==
    { <<"r", ".", "p", "d", "f">>,
      <<"i", "n", "/", "a", " ", "b", "&", "c", "!">>,
      <<"C", "O", "N">> }

\* the random numbers uploadFile's normalize draws in the model
RandomSample == {0, 7, 1000}

----------------------------------------------------------------------------
(* Responses of the HTTP transport *)

\* the text the ignorable-error regular expression looks for
IOErrorPattern == "IO error during request payload read"

\* error.message of a payload, as a sequence of text fragments; <<>> is a
\* payload whose error carries no message
ErrorMessages ==
    { <<IOErrorPattern>>,
      <<"Internal: ", IOErrorPattern, " (retry later)">>,
      <<"itemNotFound">>,
      <<>> }

\* the value of `response` before any payload was assigned to it (null)
NoBody == [id |-> 0, hasError |-> FALSE, message |-> <<>>]

\* the payload of a 401 Response (the code never reads it)
UnauthorizedBody ==
    [id |-> 3, hasError |-> TRUE, message |-> <<"InvalidAuthenticationToken">>]

\* a Response of fetch: its status, and what response.json() gives
\* (json = FALSE: the body is empty or not JSON, and json() rejects).
\* The code reads the status only to compare it with 401.
Responses ==
    [status : {200}, json : {TRUE}, body : [id : {1, 2}, hasError : {FALSE}, message : {<<>>}]]
      \cup [status : {500}, json : {TRUE}, body : [id : {3}, hasError : {TRUE}, message : ErrorMessages]]
      \cup [status : {204}, json : {FALSE}, body : {NoBody}]
      \cup [status : {401}, json : {TRUE}, body : {UnauthorizedBody}]

\* the value of renew's `response` while no Response was received
NoResponse == [status |-> 0, json |-> FALSE, body |-> NoBody]

\* what the token endpoint answers: the transport fails (fetch or json()
\* rejects), an error payload, or a token pair
Authorizations ==
    [kind : {"transport"}, error : {FALSE}, access_token : {NULL}, refresh_token : {NULL}]
      \cup [kind : {"payload"}, error : {TRUE}, access_token : {NULL}, refresh_token : {NULL}]
      \cup {[kind |-> "payload", error |-> FALSE, access_token |-> t,
              refresh_token |-> RefreshTokenOf(t)] : t \in Tokens}

----------------------------------------------------------------------------
(* NormalizeUtils (src/src/utils/normalize.js). A text is a sequence of    *)
(* characters, each a string of length one.                                *)

\* the characters \s of a regular expression matches, and trim() strips
WhiteSpace == {" ", "\t", "\n", "\r"}

\* the replace without its g flag: only the first character of chars becomes rep
ReplaceAll_FirstOnly(text, chars, rep) ==
    LET at == {i \in 1..Len(text) : text[i] \in chars}
    IN IF at = {}
       THEN text
       ELSE LET i == CHOOSE k \in at : \A m \in at : k <= m
            IN SubSeq(text, 1, i - 1) \o rep \o SubSeq(text, i + 1, Len(text))

\* text.replace(/[chars]/g, rep): every character of chars becomes rep
RECURSIVE ReplaceAll(_, _, _)
ReplaceAll(text, chars, rep) ==
    IF text = <<>>
    THEN <<>>
    ELSE (IF Head(text) \in chars THEN rep ELSE <<Head(text)>>)
            \o ReplaceAll(Tail(text), chars, rep)

\* the replace with a g flag: every run of characters of chars becomes rep
RECURSIVE ReplaceFirstRun_Global(_, _, _)
ReplaceFirstRun_Global(text, chars, rep) ==
    IF text = <<>>
    THEN <<>>
    ELSE IF Head(text) \notin chars
         THEN <<Head(text)>> \o ReplaceFirstRun_Global(Tail(text), chars, rep)
         ELSE IF Len(text) > 1 /\ text[2] \in chars
              THEN ReplaceFirstRun_Global(Tail(text), chars, rep)
              ELSE rep \o ReplaceFirstRun_Global(Tail(text), chars, rep)

\* text.replace(/[chars]+/, rep): the first run of characters of chars becomes rep
ReplaceFirstRun(text, chars, rep) ==
    LET at == {i \in 1..Len(text) : text[i] \in chars}
    IN IF at = {}
       THEN text
       ELSE LET i == CHOOSE k \in at : \A m \in at : k <= m
                j == CHOOSE k \in i..Len(text) :
                        /\ \A m \in i..k : text[m] \in chars
                        /\ k = Len(text) \/ text[k + 1] \notin chars
            IN SubSeq(text, 1, i - 1) \o rep \o SubSeq(text, j + 1, Len(text))

\* whether pat occurs in text at index i
MatchesAt(text, pat, i) ==
    /\ i + Len(pat) - 1 <= Len(text)
    /\ SubSeq(text, i, i + Len(pat) - 1) = pat

\* the length of the match of /https?:\/\/[^ ~]+/ that starts at index i (0: none)
LinkLengthAt(text, i) ==
    LET scheme == IF MatchesAt(text, <<"h", "t", "t", "p", "s", ":", "/", "/">>, i) THEN 8
                  ELSE IF MatchesAt(text, <<"h", "t", "t", "p", ":", "/", "/">>, i) THEN 7
                  ELSE 0
        from == i + scheme
        rest == {k \in from..Len(text) : \A m \in from..k : text[m] \notin {" ", "~"}}
    IN IF scheme = 0 \/ rest = {} THEN 0 ELSE scheme + Cardinality(rest)

\* removeLinks from index i on
RECURSIVE RemoveLinksFrom(_, _)
RemoveLinksFrom(text, i) ==
    IF i > Len(text)
    THEN <<>>
    ELSE IF LinkLengthAt(text, i) > 0
         THEN RemoveLinksFrom(text, i + LinkLengthAt(text, i))
         ELSE <<text[i]>> \o RemoveLinksFrom(text, i + 1)

\* removeLinks(text): text.replace(/https?:\/\/[^ ~]+/g, '')
RemoveLinks(text) == RemoveLinksFrom(text, 1)

\* .replace(/^~/, '')
StripLeadingTilde(text) ==
    IF text # <<>> /\ Head(text) = "~" THEN Tail(text) ELSE text

\* .replace(/^\.|\.$/, ''): the leading period, else the trailing one
StripOnePeriod(text) ==
    IF text # <<>> /\ Head(text) = "."
    THEN Tail(text)
    ELSE IF text # <<>> /\ text[Len(text)] = "."
         THEN SubSeq(text, 1, Len(text) - 1)
         ELSE text

\* .trim()
RECURSIVE Trim(_)
Trim(text) ==
    IF text = <<>> THEN <<>>
    ELSE IF Head(text) \in WhiteSpace THEN Trim(Tail(text))
    ELSE IF text[Len(text)] \in WhiteSpace THEN Trim(SubSeq(text, 1, Len(text) - 1))
    ELSE text

\* the decimal digits of a natural number
RECURSIVE Decimal(_)
Decimal(n) ==
    LET digit == <<"0", "1", "2", "3", "4", "5", "6", "7", "8", "9">>[(n % 10) + 1]
    IN IF n < 10 THEN <<digit>> ELSE Decimal(n \div 10) \o <<digit>>

\* what (Math.random() * 1000).toFixed(0) can give: a product in [0, 1000)
\* rounded to the nearest integer
RandomNumbers == 0..1000

\* invalidNames without the two spreads of COM0-COM9 and LPT0-LPT9
InvalidNames_NoPorts ==
    { <<".", "l", "o", "c", "k">>, <<"C", "O", "N">>, <<"P", "R", "N">>,
      <<"A", "U", "X">>, <<"N", "U", "L">>, <<"_", "v", "t", "i", "_">>,
      <<"d", "e", "s", "k", "t", "o", "p", ".", "i", "n", "i">> }

\* const invalidNames = [...]
InvalidNames ==
    { <<".", "l", "o", "c", "k">>, <<"C", "O", "N">>, <<"P", "R", "N">>,
      <<"A", "U", "X">>, <<"N", "U", "L">>, <<"_", "v", "t", "i", "_">>,
      <<"d", "e", "s", "k", "t", "o", "p", ".", "i", "n", "i">> }
      \cup {<<"C", "O", "M">> \o Decimal(i) : i \in 0..9}
      \cup {<<"L", "P", "T">> \o Decimal(i) : i \in 0..9}

\* /_vti_/.test(str)
ContainsVti(str) ==
    \E i \in 1..Len(str) : MatchesAt(str, <<"_", "v", "t", "i", "_">>, i)

\* replaceOutlookInvalidNames that returns the name as it is
ReplaceOutlookInvalidNames_NoSuffix(str, n) == str

\* replaceOutlookInvalidNames(str), with n the random number drawn
ReplaceOutlookInvalidNames(str, n) ==
    IF ContainsVti(str) THEN <<"v", "t", "i">> \o Decimal(n)
    ELSE IF str \in InvalidNames THEN str \o Decimal(n)
    ELSE str

\* the chain of replacements of normalize(text), before the reserved names
NormalizedTxt(text) ==
    LET t1 == ReplaceAll(RemoveLinks(text), {"*"}, <<>>)
        t2 == ReplaceAll(t1, {"\"", "{", "}", "*", ":", "<", ">", "?", "/", "%", "+", "|"}, <<>>)
        t3 == ReplaceAll(t2, {"\r", "\t"}, <<>>)
        t4 == ReplaceAll(t3, {"\n"}, <<" ", "-", " ">>)
        t5 == ReplaceAll(t4, {"&"}, <<"a", "n", "d">>)
        t6 == ReplaceFirstRun(t5, {"."}, <<".">>)
        t7 == StripLeadingTilde(t6)
        t8 == StripOnePeriod(t7)
        t9 == ReplaceFirstRun(t8, WhiteSpace, <<" ">>)
    IN Trim(t9)

\* normalize(text), with n the random number drawn
Normalize(text, n) == ReplaceOutlookInvalidNames(NormalizedTxt(text), n)

\* the marks encodeURIComponent leaves as they are, besides letters and digits
UriMarks == {"-", "_", ".", "!", "~", "*", "'", "(", ")"}

\* the marks among them that encodeRFC3986URIComponent escapes: /[!'()*]/g
Rfc3986Reserved == {"!", "'", "(", ")", "*"}

\* the printable ASCII characters of codes 32 to 95
AsciiLow ==
    <<" ", "!", "\"", "#", "$", "%", "&", "'", "(", ")", "*", "+", ",", "-", ".", "/",
      "0", "1", "2", "3", "4", "5", "6", "7", "8", "9", ":", ";", "<", "=", ">", "?",
      "@", "A", "B", "C", "D", "E", "F", "G", "H", "I", "J", "K", "L", "M", "N", "O",
      "P", "Q", "R", "S", "T", "U", "V", "W", "X", "Y", "Z", "[", "\\", "]", "^", "_">>

\* the printable ASCII characters of codes 97 to 126
AsciiHigh ==
    <<"a", "b", "c", "d", "e", "f", "g", "h", "i", "j", "k", "l", "m", "n", "o",
      "p", "q", "r", "s", "t", "u", "v", "w", "x", "y", "z", "{", "|", "}", "~">>

\* c.charCodeAt(0), for the characters of the model
CharCode(c) ==
    CASE c = "\t" -> 9
      [] c = "\n" -> 10
      [] c = "\r" -> 13
      [] \E i \in 1..Len(AsciiLow) : AsciiLow[i] = c ->
            31 + (CHOOSE i \in 1..Len(AsciiLow) : AsciiLow[i] = c)
      [] OTHER -> 96 + (CHOOSE i \in 1..Len(AsciiHigh) : AsciiHigh[i] = c)

\* the escape of one character: '%' and its code in two upper-case hex digits
PercentEscape(c) ==
    LET hex == <<"0", "1", "2", "3", "4", "5", "6", "7", "8", "9",
                 "A", "B", "C", "D", "E", "F">>
    IN <<"%", hex[(CharCode(c) \div 16) + 1], hex[(CharCode(c) % 16) + 1]>>

\* the characters encodeURIComponent leaves as they are
UriUnescaped ==
    {AsciiLow[i] : i \in {k \in 1..Len(AsciiLow) : (31 + k) \in (48..57) \cup (65..90)}}
      \cup {AsciiHigh[i] : i \in 1..26}
      \cup UriMarks

\* encodeRFC3986URIComponent(str): encodeURIComponent, then ! ' ( ) * escaped too
RECURSIVE EncodeRFC3986URIComponent(_)
EncodeRFC3986URIComponent(str) ==
    IF str = <<>>
    THEN <<>>
    ELSE (IF Head(str) \in UriUnescaped \ Rfc3986Reserved
          THEN <<Head(str)>>
          ELSE PercentEscape(Head(str)))
            \o EncodeRFC3986URIComponent(Tail(str))

\* encode(text), with n the random number drawn
Encode(text, n) == EncodeRFC3986URIComponent(Normalize(text, n))

\* the sixteen hexadecimal digits, upper case and lower case
HexDigits ==
    <<"0", "1", "2", "3", "4", "5", "6", "7", "8", "9", "A", "B", "C", "D", "E", "F">>

HexDigitsLower ==
    <<"0", "1", "2", "3", "4", "5", "6", "7", "8", "9", "a", "b", "c", "d", "e", "f">>

\* whether c is a hexadecimal digit
IsHex(c) == \E i \in 1..Len(HexDigits) : c \in {HexDigits[i], HexDigitsLower[i]}

\* the value of the hexadecimal digit c
HexValue(c) ==
    (CHOOSE i \in 1..Len(HexDigits) : c \in {HexDigits[i], HexDigitsLower[i]}) - 1

\* what decodeURIComponent throws on a malformed escape
URIError == <<"URIError">>

\* a character that is not among those of the model
OtherChar == "other"

\* String.fromCharCode(k), for the characters of the model
CharOfCode(k) ==
    CASE k = 9 -> "\t"
      [] k = 10 -> "\n"
      [] k = 13 -> "\r"
      [] k \in 32..95 -> AsciiLow[k - 31]
      [] k \in 97..126 -> AsciiHigh[k - 96]
      [] OTHER -> OtherChar

\* decodeURIComponent(str): every %XX becomes the character of code XX; a '%'
\* that is not followed by two hexadecimal digits, or an escaped byte above
\* 127 that stands alone, is a URIError
RECURSIVE DecodeURIComponent(_)
DecodeURIComponent(str) ==
    IF str = <<>>
    THEN <<>>
    ELSE IF Head(str) # "%"
         THEN LET rest == DecodeURIComponent(Tail(str))
              IN IF rest = URIError THEN URIError ELSE <<Head(str)>> \o rest
         ELSE IF Len(str) < 3 \/ ~IsHex(str[2]) \/ ~IsHex(str[3])
              THEN URIError
              ELSE LET k == 16 * HexValue(str[2]) + HexValue(str[3])
                       rest == DecodeURIComponent(SubSeq(str, 4, Len(str)))
                   IN IF k > 127 \/ rest = URIError
                      THEN URIError
                      ELSE <<CharOfCode(k)>> \o rest

\* decode(text), with n the random number drawn
Decode(text, n) == DecodeURIComponent(Normalize(text, n))

----------------------------------------------------------------------------
(* The texts NormalizeUtils is called with *)

\* the characters of the short texts: a letter, the characters normalize
\* treats one by one, and a mark only encodeRFC3986URIComponent escapes
Alphabet == {"a", ".", " ", "~", "&", "%", "\n", "!"}

\* the length of the short texts
MaxTextLen == 3

\* the characters of the texts with runs of periods and of spaces
RunAlphabet == {"a", ".", " "}

\* the length of the texts with runs
MaxRunTextLen == 6

\* every text of at most n characters of chars
TextsUpTo(chars, n) == UNION {[1..k -> chars] : k \in 0..n}

SampleTexts ==
    {
    \* the texts of the repository's unit tests
      <<"~", "t", "e", "s", "t">>,
      <<".", "t", "e", "s", "t">>,
      <<"t", "e", "s", "t", ".">>,
      <<"t", "e", ".", ".", ".", "s", "t">>,
      <<"N", "u", "m", "b", "e", "r", " ", "s", "i", "g", "n", " ", "(", "#", ")">>,
      <<"P", "e", "r", "c", "e", "n", "t", " ", "(", "%", ")">>,
      <<"A", "m", "p", "e", "r", "s", "a", "n", "d", " ", "(", "&", ")">>,
      <<"B", "r", "a", "c", "e", "s", " ", "(", "{", " ", "}", ")">>,
      <<"G", "o", "o", "g", "l", "e", " ", "h", "t", "t", "p", ":", "/", "/", "g", "o", "o", "g", "l", "e", ".", "c", "o", "m", ".", "b", "r", " ", "W", "e", "b", "S", "i", "t", "e">>,
    \* texts with two runs of periods or of whitespace
      <<"a", ".", ".", "b", ".", ".", "c">>,
      <<"a", " ", " ", "a", " ", " ", "a">>,
      <<".", "a", ".">>,
      <<"a", ".", "b", ".", " ">>,
    \* the reserved names
      <<".", "l", "o", "c", "k">>,
      <<"C", "O", "N">>,
      <<"P", "R", "N">>,
      <<"A", "U", "X">>,
      <<"N", "U", "L">>,
      <<"_", "v", "t", "i", "_">>,
      <<"d", "e", "s", "k", "t", "o", "p", ".", "i", "n", "i">>,
      <<"C", "O", "M", "0">>,
      <<"C", "O", "M", "1">>,
      <<"C", "O", "M", "2">>,
      <<"C", "O", "M", "3">>,
      <<"C", "O", "M", "4">>,
      <<"C", "O", "M", "5">>,
      <<"C", "O", "M", "6">>,
      <<"C", "O", "M", "7">>,
      <<"C", "O", "M", "8">>,
      <<"C", "O", "M", "9">>,
      <<"L", "P", "T", "0">>,
      <<"L", "P", "T", "1">>,
      <<"L", "P", "T", "2">>,
      <<"L", "P", "T", "3">>,
      <<"L", "P", "T", "4">>,
      <<"L", "P", "T", "5">>,
      <<"L", "P", "T", "6">>,
      <<"L", "P", "T", "7">>,
      <<"L", "P", "T", "8">>,
      <<"L", "P", "T", "9">>,
    \* texts around the reserved names
      <<" ", ".", "l", "o", "c", "k">>,
      <<"C", "O", "N", " ">>,
      <<"c", "o", "n">>,
      <<"C", "O", "M">>,
      <<"C", "O", "N", "1">>,
      <<"x", "_", "v", "t", "i", "_", "y">>,
      <<"a", ".", "_", "v", "t", "i", "_">>,
    \* texts with links, and with every character normalize removes
      <<"h", "t", "t", "p", "s", ":", "/", "/", "x", "~", "y">>,
      <<"h", "t", "t", "p", ":", "/", "/">>,
      <<"a", "\"", "{", "}", "*", ":", "<", ">", "?", "/", "%", "+", "|", "b">>,
      <<"a", "\r", "\n", "\t", "b">>,
      <<"a", "%", "2", "0", "b">>,
      <<"i", "t", "'", "s", " ", "(", "1", ")", "*", "!">>
    }

\* the texts the caller passes to normalize, encode and decode
Texts ==
    TextsUpTo(Alphabet, MaxTextLen) \cup TextsUpTo(RunAlphabet, MaxRunTextLen)
        \cup SampleTexts

\* no text was handed to NormalizeUtils; `did` holds the methods called
NoNorm ==
    [text |-> <<>>, did |-> {}, normalized |-> <<>>, encoded |-> <<>>, decoded |-> <<>>]


----------------------------------------------------------------------------
VARIABLES
    msCode,          \* #msCode
    msAccessToken,   \* #msAccessToken
    msRefreshToken,  \* #msRefreshToken
    pc,              \* the await the running call is suspended at, or "idle"
    op,              \* the public method running (or the last one that ran)
    call,            \* the parameters of the #requestGraphApi call
    retry,           \* `retry` of #requestGraphApi
    apiResponse,     \* `response` of #requestGraphApi
    response,        \* `response` of #renewTokenWithNeeded
    grant,           \* grant_type of the token exchange in flight
    urlFile,         \* `urlFile` of uploadFile
    sent,            \* the last fetch issued by #internalRequest
    apiResult,       \* how the #requestGraphApi call ended
    result,          \* how the public method ended
    obs,             \* what happened during the running public method
    session,         \* "signedIn" once a signIn() has returned, until the next logout()
    params,          \* the parameters the constructor is called with
    norm             \* a text handed to NormalizeUtils, and what its methods returned

vars == <<msCode, msAccessToken, msRefreshToken, pc, op, call, retry,
          apiResponse, response, grant, urlFile, sent, apiResult, result, obs,
          session, params, norm>>

tokenVars == <<msCode, msAccessToken, msRefreshToken>>

serviceVars == <<msCode, msAccessToken, msRefreshToken, pc, op, call, retry,
                 apiResponse, response, grant, urlFile, sent, apiResult, result,
                 obs, session, params>>

----------------------------------------------------------------------------
(* Values *)

NoCall == [method |-> NULL, url |-> <<>>]

NoRequest == [method |-> NULL, url |-> <<>>, token |-> NULL]

\* a call still running
Pending == [kind |-> "pending", value |-> NoBody, error |-> NULL, method |-> NULL, url |-> <<>>]

\* return <value>
Return(v) == [kind |-> "return", value |-> v, error |-> NULL, method |-> NULL, url |-> <<>>]

\* return null
ReturnNull == [kind |-> "null", value |-> NoBody, error |-> NULL, method |-> NULL, url |-> <<>>]

\* return (of a method that returns nothing)
ReturnVoid == [kind |-> "void", value |-> NoBody, error |-> NULL, method |-> NULL, url |-> <<>>]

\* throw new BaseError(...): the kind of error, and the verb and path its message names
Throw(e, m, u) == [kind |-> "throw", value |-> NoBody, error |-> e, method |-> m, url |-> u]

\* what is recorded of one public method call: counters of the whole call and
\* of the running attempt, the fetches of #internalRequest and the token
\* exchanges issued and not yet settled, the last token exchange (the tokens before it, what
\* the token endpoint answered, how #requestAuthorizationToken ended), the
\* filesystem's answers, the parameters of uploadFile, and the fields as the
\* call found them
NoObs ==
    [attempts |-> 0, http |-> 0, refreshes |-> 0, fails |-> 0, authFails |-> 0,
     attemptHttp |-> 0, attemptRefreshes |-> 0,
     httpInFlight |-> 0, exchangesInFlight |-> 0,
     prompts |-> 0, codeExchanges |-> 0,
     exchange |-> "none", answer |-> "none",
     preAccess |-> NULL, preRefresh |-> NULL,
     granted |-> NULL, grantedRefresh |-> NULL,
     fileExist |-> "unknown", readFile |-> "none",
     folderName |-> <<>>, file |-> <<>>,
     startCode |-> NULL, startAccess |-> NULL, startRefresh |-> NULL]

\* the record of a call that begins now
StartObs ==
    [NoObs EXCEPT !.startCode = msCode,
                  !.startAccess = msAccessToken,
                  !.startRefresh = msRefreshToken]

----------------------------------------------------------------------------
(* The conditions the code tests *)

\* response.status === 401
IsUnauthorized(r) == r.status = 401

\* if (response.error)
HasError(body) == body.hasError

\* the regular expression anchored: /^IO error during request payload read$/
IsIgnorableError_Anchored(body) == body.message = <<IOErrorPattern>>

\* /IO error during request payload read/.test(response.error.message)
IsIgnorableError(body) ==
    \E i \in DOMAIN body.message : body.message[i] = IOErrorPattern

\* the loop test written with < instead of <=
LoopContinues_OffByOne(r) == r < MAX_RETRIES

\* the loop test that lets one more attempt through
LoopContinues_OneMore(r) == r <= MAX_RETRIES + 1

\* while (retry <= MsGraphService.#MAX_RETRIES)
LoopContinues(r) == r <= MAX_RETRIES

\* the test after the loop written with >= instead of >
RetriesExceeded_Inclusive(r) == r >= MAX_RETRIES

\* if (retry > MsGraphService.#MAX_RETRIES)
RetriesExceeded(r) == r > MAX_RETRIES

\* a call made without `await`: the caller goes on while it is still in flight
Settled_NotAwaited(n) == n

\* `await`: the caller goes on only when the call it made has settled, so
\* the count n of its calls in flight has gone down by that one
Settled(n) == n - 1

\* !client, !secret: the parameter is undefined, null or the empty string
IsMissing(v) == v \in {NULL, ""}

\* a constructor that tests the client only
ConstructorThrows_ClientOnly(p) == IsMissing(p.client)

\* if (!client) throw ...; if (!secret) throw ...
ConstructorThrows(p) == IsMissing(p.client) \/ IsMissing(p.secret)

\* signIn that never takes the token for present
HasAccessToken_Never(token) == FALSE

\* if (this.#msAccessToken)
HasAccessToken(token) == token # NULL

\* uploadFile without its early return
FileMissing_Never(fileExist) == FALSE

\* if (!fileExist)
FileMissing(fileExist) == ~fileExist

\* logout() that forgets the refresh token
LoggedOut_KeepsRefresh ==
    [msCode |-> NULL, msAccessToken |-> NULL, msRefreshToken |-> msRefreshToken]

\* the fields as logout() leaves them
LoggedOut == [msCode |-> NULL, msAccessToken |-> NULL, msRefreshToken |-> NULL]

\* the fetch of #internalRequest: 'Authorization': `Bearer ${this.#msAccessToken}`
InternalRequest(c, token) == [method |-> c.method, url |-> c.url, token |-> token]

\* throw new BaseError(`Max retries error in request [${method}]: ${url}`)
MaxRetriesError(c) == Throw("MaxRetriesExceededError", c.method, c.url)

\* #requestAuthorizationToken that never calls #setAuthorizationTokens
RequestAuthorizationToken_Discards(authorization, access, refresh) ==
    [threw |-> authorization.kind = "transport" \/ authorization.error,
     access |-> access, refresh |-> refresh]

\* #requestAuthorizationToken that calls #setAuthorizationTokens before it
\* tests authorization.error
RequestAuthorizationToken_StoresFirst(authorization, access, refresh) ==
    IF authorization.kind = "transport"
    THEN [threw |-> TRUE, access |-> access, refresh |-> refresh]
    ELSE [threw |-> authorization.error,
          access |-> authorization.access_token,
          refresh |-> authorization.refresh_token]

\* #requestAuthorizationToken that clears both tokens when the exchange fails
RequestAuthorizationToken_ClearsOnFailure(authorization, access, refresh) ==
    IF authorization.kind = "transport" \/ authorization.error
    THEN [threw |-> TRUE, access |-> NULL, refresh |-> NULL]
    ELSE [threw |-> FALSE,
          access |-> authorization.access_token,
          refresh |-> authorization.refresh_token]

\* #requestAuthorizationToken once the token endpoint has answered: the
\* tokens the fields hold afterwards, and whether it throws
\* BaseError('Cannot get the Sharepoint authorization ...')
RequestAuthorizationToken(authorization, access, refresh) ==
    IF authorization.kind = "transport" \/ authorization.error
    THEN [threw |-> TRUE, access |-> access, refresh |-> refresh]
    ELSE [threw |-> FALSE,
          access |-> authorization.access_token,
          refresh |-> authorization.refresh_token]

\* file.split('/').at(-1)
RECURSIVE LastSegment(_)
LastSegment(file) ==
    IF \E i \in 1..Len(file) : file[i] = "/"
    THEN LastSegment(Tail(file))
    ELSE file

\* this.#sharepointFolder.concat(`:/${folderName}/${NormalizeUtils.encode(fileName)}:/content`)
UrlFile(folderName, file, n) ==
    SharepointFolder \o <<":", "/">> \o folderName \o <<"/">>
        \o Encode(LastSegment(file), n)
        \o <<":", "/", "c", "o", "n", "t", "e", "n", "t">>

\* the calls of uploadFile the caller makes, each with the random number its
\* normalize draws and the urlFile it computes
UploadCalls ==
    {[folderName |-> folderName, file |-> file, urlFile |-> UrlFile(folderName, file, n)] :
        folderName \in FolderNames, file \in Files, n \in RandomSample}

\* throw new BaseError(`Cannot upload a new file in ${urlFile}`, error)
UploadError(u) == Throw("UploadError", NULL, u)

----------------------------------------------------------------------------
(* How a public method ends once its #requestGraphApi call has ended *)

\* requestGraphGet / Post / Put / Delete hand the outcome on as it is
RequestOutcome(res) == res

\* signIn: await this.#getMyInfo(); return;
SignInOutcome(res) == IF res.kind = "throw" THEN res ELSE ReturnVoid

\* uploadFile without its try/catch
UploadOutcome_Unwrapped(res, u) == res

\* uploadFile: a rejected requestGraphPut, or a response with an error, is
\* caught and wrapped; anything else is returned
UploadOutcome(res, u) ==
    IF res.kind = "throw" THEN UploadError(u)
    ELSE IF res.kind = "return" /\ HasError(res.value) THEN UploadError(u)
    ELSE res

Outcome(o, res) ==
    CASE o = "request" -> RequestOutcome(res)
      [] o = "signIn" -> SignInOutcome(res)
      [] o = "uploadFile" -> UploadOutcome(res, urlFile)

\* the awaited fetch of #internalRequest has settled
HttpSettled(o) == [o EXCEPT !.httpInFlight = Settled(@)]

\* the #requestGraphApi call ends with res, and with it the public method
Finish(res) ==
    /\ apiResult' = res
    /\ result' = Outcome(op, res)
    /\ pc' = "idle"
    /\ session' = IF op = "signIn" /\ Outcome(op, res).kind # "throw"
                  THEN "signedIn" ELSE session

\* one more pass of the while loop: #renewTokenWithNeeded issues its first fetch
NextAttempt(o) ==
    /\ pc' = "fetch"
    /\ sent' = InternalRequest(call, msAccessToken)
    /\ obs' = [o EXCEPT !.attempts = @ + 1, !.http = @ + 1,
                        !.attemptHttp = 1, !.attemptRefreshes = 0,
                        !.httpInFlight = @ + 1]
    /\ UNCHANGED <<apiResult, result, session>>

\* catch(error) { ... retry++ ... }, then the loop test and the test after the loop
Catch(o, auth) ==
    /\ retry' = retry + 1
    /\ LET o2 == [o EXCEPT !.fails = @ + 1,
                           !.authFails = @ + (IF auth THEN 1 ELSE 0)]
       IN IF LoopContinues(retry + 1)
          THEN NextAttempt(o2)
          ELSE /\ obs' = o2
               /\ UNCHANGED sent
               /\ IF RetriesExceeded(retry + 1)
                  THEN Finish(MaxRetriesError(call))
                  ELSE Finish(Return(apiResponse))

\* return response.json() of #renewTokenWithNeeded, and what #requestGraphApi
\* does with the payload; o is the record of the call once the fetch settled
HandlePayload(r, o) ==
    IF ~r.json
    THEN /\ Catch(o, FALSE)
         /\ UNCHANGED apiResponse
    ELSE /\ apiResponse' = r.body
         /\ IF HasError(r.body)
            THEN IF IsIgnorableError(r.body)
                 THEN /\ Finish(ReturnNull)
                      /\ obs' = o
                      /\ UNCHANGED <<retry, sent>>
                 ELSE Catch(o, FALSE)
            ELSE /\ obs' = o
                 /\ UNCHANGED <<retry, sent>>
                 /\ IF RetriesExceeded(retry)
                    THEN Finish(MaxRetriesError(call))
                    ELSE Finish(Return(r.body))

\* #requestGraphApi from its first line to the first fetch
RequestGraphApi(c, o) ==
    /\ call' = c
    /\ retry' = 1
    /\ apiResponse' = NoBody
    /\ response' = NoResponse
    /\ apiResult' = Pending
    /\ result' = Pending
    /\ pc' = "fetch"
    /\ sent' = InternalRequest(c, msAccessToken)
    /\ obs' = [o EXCEPT !.attempts = @ + 1, !.http = @ + 1,
                        !.attemptHttp = 1, !.attemptRefreshes = 0,
                        !.httpInFlight = @ + 1]
    /\ UNCHANGED <<tokenVars, grant, session>>

\* no #requestGraphApi call is running: its parameters and locals do not exist
NoRequestGraphApi ==
    /\ call' = NoCall
    /\ retry' = 1
    /\ apiResponse' = NoBody
    /\ response' = NoResponse
    /\ sent' = NoRequest
    /\ apiResult' = Pending

\* fs.access(filename) is issued by #fileExists
FileExists(o) ==
    /\ pc' = "access"
    /\ obs' = o
    /\ result' = Pending

----------------------------------------------------------------------------
(* The caller's calls *)

\* new MsGraphService({ domain, client, secret, token, ... })
Constructor ==
    /\ pc = "new"
    /\ op' = "constructor"
    /\ IF ConstructorThrows(params)
       THEN /\ pc' = "failed"
            /\ result' = Throw("ConfigurationError", NULL, <<>>)
            /\ UNCHANGED tokenVars
       ELSE /\ pc' = "idle"
            /\ result' = ReturnVoid
            /\ msCode' = LoggedOut.msCode
            /\ msRefreshToken' = LoggedOut.msRefreshToken
            /\ msAccessToken' = params.token
    /\ UNCHANGED <<call, retry, apiResponse, response, grant, urlFile, sent,
                   apiResult, obs, session, params, norm>>

\* requestGraphGet, requestGraphPost, requestGraphPut, requestGraphDelete
RequestGraph ==
    /\ pc = "idle"
    /\ UNCHANGED <<params, norm>>
    /\ op' = "request"
    /\ \E m \in Methods, u \in RequestUrls :
          RequestGraphApi([method |-> m, url |-> u], StartObs)
    /\ urlFile' = <<>>

\* uploadFile({ attachmentDir, folderName, file }) up to its first await
UploadFile ==
    /\ pc = "idle"
    /\ UNCHANGED <<params, norm>>
    /\ op' = "uploadFile"
    /\ \E c \in UploadCalls :
          /\ urlFile' = c.urlFile
          /\ FileExists([StartObs EXCEPT !.folderName = c.folderName, !.file = c.file])
    /\ NoRequestGraphApi
    /\ UNCHANGED <<tokenVars, grant, session>>

\* logout()
Logout ==
    /\ pc = "idle"
    /\ UNCHANGED <<params, norm>>
    /\ msCode' = LoggedOut.msCode
    /\ msAccessToken' = LoggedOut.msAccessToken
    /\ msRefreshToken' = LoggedOut.msRefreshToken
    /\ op' = "logout"
    /\ result' = ReturnVoid
    /\ obs' = StartObs
    /\ session' = IF session = "none" THEN "none" ELSE "loggedOut"
    /\ NoRequestGraphApi
    /\ urlFile' = <<>>
    /\ UNCHANGED <<pc, grant>>

\* signIn() up to its first await
SignIn ==
    /\ pc = "idle"
    /\ UNCHANGED <<params, norm>>
    /\ op' = "signIn"
    /\ IF HasAccessToken(msAccessToken)
       THEN RequestGraphApi([method |-> "GET", url |-> MePath], StartObs)
       ELSE /\ pc' = "prompt"
            /\ obs' = [StartObs EXCEPT !.prompts = 1]
            /\ result' = Pending
            /\ NoRequestGraphApi
            /\ UNCHANGED <<tokenVars, grant, session>>
    /\ urlFile' = <<>>

----------------------------------------------------------------------------
(* The continuations *)

\* the fetch of #requestAuthorizationToken is issued
IssueExchange(o, g) ==
    /\ grant' = g
    /\ pc' = "token"
    /\ obs' = [o EXCEPT !.exchangesInFlight = @ + 1,
                        !.exchange = "pending", !.answer = "none",
                        !.granted = NULL, !.grantedRefresh = NULL,
                        !.preAccess = msAccessToken,
                        !.preRefresh = msRefreshToken]

\* what is recorded when the token endpoint has answered with authorization
\* and #requestAuthorizationToken has ended as x
Exchanged(o, authorization, x) ==
    [o EXCEPT !.answer = IF authorization.kind = "transport" THEN "transport"
                         ELSE IF authorization.error THEN "error" ELSE "tokens",
              !.granted = authorization.access_token,
              !.grantedRefresh = authorization.refresh_token,
              !.exchange = IF x.threw THEN "AuthorizationError" ELSE "ok",
              !.exchangesInFlight = Settled(@)]

\* prompt.question resolves with the code the user typed
PromptAnswered ==
    /\ pc = "prompt"
    /\ UNCHANGED <<params, norm>>
    /\ \E code \in Codes : msCode' = code
    /\ IssueExchange([obs EXCEPT !.codeExchanges = @ + 1], "authorization_code")
    /\ UNCHANGED <<msAccessToken, msRefreshToken, op, call, retry, apiResponse,
                   response, urlFile, sent, apiResult, result, session>>

\* fs.access has settled: #fileExists resolves with true or false
AccessSettled ==
    /\ pc = "access"
    /\ UNCHANGED <<params, norm>>
    /\ \E fileExist \in BOOLEAN :
          /\ obs' = [obs EXCEPT !.fileExist = IF fileExist THEN "yes" ELSE "no"]
          /\ IF FileMissing(fileExist)
             THEN /\ pc' = "idle"
                  /\ result' = ReturnNull
             ELSE /\ pc' = "readFile"
                  /\ UNCHANGED result
    /\ UNCHANGED <<tokenVars, op, call, retry, apiResponse, response, grant,
                   urlFile, sent, apiResult, session>>

\* fs.readFile rejects: the catch of uploadFile wraps the error
ReadFileRejected ==
    /\ pc = "readFile"
    /\ UNCHANGED <<params, norm>>
    /\ pc' = "idle"
    /\ result' = UploadError(urlFile)
    /\ obs' = [obs EXCEPT !.readFile = "rejected"]
    /\ UNCHANGED <<tokenVars, op, call, retry, apiResponse, response, grant,
                   urlFile, sent, apiResult, session>>

\* fs.readFile resolves: this.requestGraphPut(urlFile, fileContent, null, conflict)
ReadFileResolved ==
    /\ pc = "readFile"
    /\ UNCHANGED <<params, norm>>
    /\ RequestGraphApi([method |-> "PUT", url |-> urlFile],
                       [obs EXCEPT !.readFile = "resolved"])
    /\ UNCHANGED <<op, urlFile>>

\* the first fetch of an attempt rejects (network error)
FetchRejected ==
    /\ pc = "fetch"
    /\ UNCHANGED <<params, norm>>
    /\ Catch(HttpSettled(obs), FALSE)
    /\ UNCHANGED <<tokenVars, op, call, apiResponse, response, grant, urlFile>>

\* the first fetch of an attempt resolves with a Response
FetchResolved ==
    /\ pc = "fetch"
    /\ UNCHANGED <<params, norm>>
    /\ \E r \in Responses :
          /\ response' = r
          /\ IF IsUnauthorized(r)
             THEN /\ IssueExchange([HttpSettled(obs) EXCEPT !.refreshes = @ + 1,
                                                            !.attemptRefreshes = @ + 1],
                                   "refresh_token")
                  /\ UNCHANGED <<tokenVars, retry, apiResponse, sent, apiResult,
                                 result, session>>
             ELSE /\ HandlePayload(r, HttpSettled(obs))
                  /\ UNCHANGED <<tokenVars, grant>>
    /\ UNCHANGED <<op, call, urlFile>>

\* the token endpoint has answered the refresh_token grant of #refreshToken
RefreshSettled ==
    /\ pc = "token"
    /\ UNCHANGED <<params, norm>>
    /\ grant = "refresh_token"
    /\ \E a \in Authorizations :
          LET x == RequestAuthorizationToken(a, msAccessToken, msRefreshToken)
          IN /\ msAccessToken' = x.access
             /\ msRefreshToken' = x.refresh
             /\ IF x.threw
                THEN /\ Catch(Exchanged(obs, a, x), TRUE)
                     /\ UNCHANGED response
                ELSE /\ pc' = "refetch"
                     /\ sent' = InternalRequest(call, x.access)
                     /\ obs' = [Exchanged(obs, a, x) EXCEPT !.http = @ + 1,
                                                            !.attemptHttp = @ + 1,
                                                            !.httpInFlight = @ + 1]
                     /\ UNCHANGED <<retry, response, apiResult, result, session>>
    /\ UNCHANGED <<msCode, op, call, apiResponse, grant, urlFile>>

\* the token endpoint has answered the authorization_code grant of signIn
CodeExchangeSettled ==
    /\ pc = "token"
    /\ UNCHANGED <<params, norm>>
    /\ grant = "authorization_code"
    /\ \E a \in Authorizations :
          LET x == RequestAuthorizationToken(a, msAccessToken, msRefreshToken)
          IN /\ msAccessToken' = x.access
             /\ msRefreshToken' = x.refresh
             /\ obs' = Exchanged(obs, a, x)
             /\ result' = IF x.threw
                          THEN Throw("AuthorizationError", NULL, <<>>)
                          ELSE ReturnVoid
             /\ session' = IF x.threw THEN session ELSE "signedIn"
    /\ pc' = "idle"
    /\ UNCHANGED <<msCode, op, call, retry, apiResponse, response, grant, urlFile,
                   sent, apiResult>>

\* the fetch retried after the refresh rejects (network error)
RefetchRejected ==
    /\ pc = "refetch"
    /\ UNCHANGED <<params, norm>>
    /\ Catch(HttpSettled(obs), FALSE)
    /\ UNCHANGED <<tokenVars, op, call, apiResponse, response, grant, urlFile>>

\* the fetch retried after the refresh resolves with a Response
RefetchResolved ==
    /\ pc = "refetch"
    /\ UNCHANGED <<params, norm>>
    /\ \E r \in Responses :
          /\ response' = r
          /\ IF IsUnauthorized(r)
             THEN /\ Catch(HttpSettled(obs), TRUE)
                  /\ UNCHANGED apiResponse
             ELSE HandlePayload(r, HttpSettled(obs))
    /\ UNCHANGED <<tokenVars, op, call, grant, urlFile>>

----------------------------------------------------------------------------
(* NormalizeUtils called on its own *)

\* NormalizeUtils.normalize(text)
CallNormalize ==
    /\ "normalize" \notin norm.did
    /\ \E n \in RandomSample :
          norm' = [norm EXCEPT !.did = @ \cup {"normalize"},
                               !.normalized = Normalize(norm.text, n)]
    /\ UNCHANGED serviceVars

\* NormalizeUtils.encode(text)
CallEncode ==
    /\ "encode" \notin norm.did
    /\ \E n \in RandomSample :
          norm' = [norm EXCEPT !.did = @ \cup {"encode"},
                               !.encoded = Encode(norm.text, n)]
    /\ UNCHANGED serviceVars

\* NormalizeUtils.decode(encoded), encoded being what encode(text) returned
CallDecode ==
    /\ "encode" \in norm.did
    /\ "decode" \notin norm.did
    /\ \E n \in RandomSample :
          norm' = [norm EXCEPT !.did = @ \cup {"decode"},
                               !.decoded = Decode(norm.encoded, n)]
    /\ UNCHANGED serviceVars

----------------------------------------------------------------------------
\* no client exists yet: its fields are undefined and nothing has run
NoInstance ==
    /\ msCode = NULL
    /\ msAccessToken = NULL
    /\ msRefreshToken = NULL
    /\ pc = "new"
    /\ op = "none"
    /\ call = NoCall
    /\ retry = 1
    /\ apiResponse = NoBody
    /\ response = NoResponse
    /\ grant = "none"
    /\ urlFile = <<>>
    /\ sent = NoRequest
    /\ apiResult = Pending
    /\ result = Pending
    /\ obs = NoObs
    /\ session = "none"

\* the caller is about to construct the client, with one set of parameters
Init ==
    /\ NoInstance
    /\ params \in Params
    /\ norm = NoNorm

Next ==
    \/ Constructor
    \/ RequestGraph
    \/ SignIn
    \/ Logout
    \/ UploadFile
    \/ PromptAnswered
    \/ AccessSettled
    \/ ReadFileRejected
    \/ ReadFileResolved
    \/ FetchRejected
    \/ FetchResolved
    \/ RefreshSettled
    \/ CodeExchangeSettled
    \/ RefetchRejected
    \/ RefetchResolved

Spec == Init /\ [][Next]_vars

\* every fetch of #internalRequest, and every token exchange of a refresh,
\* eventually resolves or rejects (which of the two is up to the network)
HttpSettles ==
    /\ WF_vars(FetchRejected \/ FetchResolved)
    /\ WF_vars(RefreshSettled)
    /\ WF_vars(RefetchRejected \/ RefetchResolved)

\* the client with a transport that always answers in the end
LiveSpec == Init /\ [][Next]_vars /\ HttpSettles

\* the caller holds a text and calls the static methods of NormalizeUtils
NormalizeInit ==
    /\ NoInstance
    /\ params = [client |-> "client-id", secret |-> "client-secret", token |-> NULL]
    /\ norm \in {[NoNorm EXCEPT !.text = t] : t \in Texts}

NormalizeNext ==
    \/ CallNormalize
    \/ CallEncode
    \/ CallDecode

NormalizeSpec == NormalizeInit /\ [][NormalizeNext]_vars

----------------------------------------------------------------------------
(* The claims *)

\* a fetch of #internalRequest is in flight
HttpInFlight == pc \in {"fetch", "refetch"}

\* the #requestGraphApi call of the running public method has ended
ApiEnded == apiResult.kind # "pending"

\* the payload carries an error whose message contains the IO-read text
CarriesIOReadError(body) ==
    /\ body.hasError
    /\ \E i \in 1..Len(body.message) : body.message[i] = IOErrorPattern

\* C1: when every attempt of a request call fails with a network error or a
\* non-ignorable application error, the call makes exactly 3 attempts and then
\* raises MaxRetriesExceededError naming the verb and the path; there is never
\* a 4th attempt, and the error is never raised before 3 attempts have failed.
C1_ThreeAttemptsThenMaxRetries ==
    /\ obs.attempts <= 3
    /\ apiResult.error = "MaxRetriesExceededError" =>
          /\ obs.attempts = 3
          /\ obs.fails = 3
          /\ apiResult.method = call.method
          /\ apiResult.url = call.url
    /\ (ApiEnded /\ obs.fails = obs.attempts /\ obs.authFails = 0) =>
          /\ obs.attempts = 3
          /\ apiResult = Throw("MaxRetriesExceededError", call.method, call.url)

\* a request call that ended after three failures, none of them an authorization failure
C1_Witness ==
    /\ op = "request"
    /\ result.error = "MaxRetriesExceededError"
    /\ obs.fails = 3
    /\ obs.authFails = 0
    /\ obs.refreshes = 0

\* C2: when the first response of an attempt is 401 and the retried request is
\* not answered 401, the attempt has made exactly one refresh exchange and then
\* exactly one retried request, that request carries the access token the
\* refresh stored, and the payload of the retried response is the attempt's result.
C2_RefreshOnceThenRetryWithNewToken ==
    /\ [](pc = "refetch" =>
            /\ obs.attemptRefreshes = 1
            /\ obs.attemptHttp = 2
            /\ obs.answer = "tokens"
            /\ msAccessToken = obs.granted
            /\ sent = [method |-> call.method, url |-> call.url, token |-> obs.granted])
    /\ [][(pc = "refetch" /\ response'.status # 401) =>
            /\ obs'.refreshes = obs.refreshes
            /\ obs'.http = obs.http \/ obs'.attempts = obs.attempts + 1
            /\ response'.json => apiResponse' = response'.body
            /\ (response'.json /\ ~response'.body.hasError) =>
                  apiResult' = Return(response'.body)
            /\ ~response'.json => obs'.fails = obs.fails + 1]_vars

\* a call that returned the payload of a request retried with a token other
\* than the one the first request carried
C2_Witness ==
    /\ pc = "idle"
    /\ obs.attemptHttp = 2
    /\ obs.refreshes = 1
    /\ obs.preAccess # NULL
    /\ obs.preRefresh # NULL
    /\ obs.granted # obs.preAccess
    /\ sent.token = obs.granted
    /\ apiResult = Return(response.body)

\* C3: an authorization failure (the refresh exchange fails, or the retried
\* request is answered 401 again) ends the request call with
\* AuthorizationError: no further refresh exchange and no further HTTP request.
C3_AuthorizationFailureIsTerminal ==
    obs.authFails > 0 =>
        /\ pc = "idle"
        /\ obs.authFails = 1
        /\ apiResult.kind = "throw"
        /\ apiResult.error = "AuthorizationError"

\* C4: an attempt, whichever it is, whose payload carries an error with the
\* IO-read message makes the request call return null at once: nothing is
\* thrown and no further attempt is made.
C4_IgnorableErrorReturnsNull ==
    CarriesIOReadError(apiResponse) =>
        /\ pc = "idle"
        /\ apiResult = ReturnNull
        /\ op = "request" => result = ReturnNull

\* the IO-read error arrived in the third attempt, inside a longer message
C4_Witness ==
    /\ op = "request"
    /\ CarriesIOReadError(apiResponse)
    /\ Len(apiResponse.message) > 1
    /\ obs.fails = 2
    /\ result = ReturnNull

\* C5: once a signIn has returned, whatever calls follow (logout included),
\* no request is issued with a null access token.  logout() clears the token
\* and #internalRequest sends whatever the field holds, so this fails.
C5_TokenNeverNullAfterSignIn ==
    (session # "none" /\ HttpInFlight) => sent.token # NULL

\* C5, the part the code does keep: once a signIn has returned and as long as
\* logout has not been called since, no request is issued with a null access
\* token (a failed refresh leaves the token stale, never null).
C5_TokenNonNullWhileSignedIn ==
    (session = "signedIn" /\ HttpInFlight) => sent.token # NULL

\* a request issued, signed in, after a refresh exchange has failed
C5_Witness ==
    /\ session = "signedIn"
    /\ pc = "fetch"
    /\ obs.exchange = "AuthorizationError"
    /\ sent.token # NULL

\* C6: a token exchange that is answered with an error payload, or whose
\* transport call fails, ends with AuthorizationError and leaves the access
\* token and the refresh token as they were; the two are overwritten only by
\* an exchange answered without error, and then with the tokens of the answer.
C6_FailedExchangeKeepsTokens ==
    /\ obs.answer \in {"transport", "error"} =>
          /\ obs.exchange = "AuthorizationError"
          /\ msAccessToken = obs.preAccess
          /\ msRefreshToken = obs.preRefresh
          /\ (grant = "authorization_code" /\ op = "signIn") =>
                result = Throw("AuthorizationError", NULL, <<>>)
    /\ obs.answer = "tokens" =>
          /\ obs.exchange = "ok"
          /\ msAccessToken = obs.granted
          /\ msRefreshToken = obs.grantedRefresh
    /\ (obs.exchange # "none" /\ obs.answer # "tokens") =>
          /\ msAccessToken = obs.preAccess
          /\ msRefreshToken = obs.preRefresh

\* a refresh exchange answered with an error payload while both tokens were set
C6_Witness ==
    /\ obs.answer = "error"
    /\ grant = "refresh_token"
    /\ obs.preAccess # NULL
    /\ obs.preRefresh # NULL
    /\ msAccessToken = obs.preAccess
    /\ msRefreshToken = obs.preRefresh

\* C7: uploadFile returns null, and raises nothing, when the local file does
\* not exist; it then issues no HTTP request, makes no refresh exchange and
\* leaves the tokens as they were.
C7_MissingFileReturnsNull ==
    (op = "uploadFile" /\ obs.fileExist = "no") =>
        /\ pc = "idle"
        /\ result = ReturnNull
        /\ obs.http = 0
        /\ obs.attempts = 0
        /\ obs.refreshes = 0
        /\ sent = NoRequest
        /\ msCode = obs.startCode
        /\ msAccessToken = obs.startAccess
        /\ msRefreshToken = obs.startRefresh

\* uploadFile found no file while the client held both tokens
C7_Witness ==
    /\ op = "uploadFile"
    /\ obs.fileExist = "no"
    /\ obs.startAccess # NULL
    /\ obs.startRefresh # NULL
    /\ result = ReturnNull

\* the remote path of an uploadFile call: base folder, ':/', remote folder,
\* '/', the encoded normalized name of the file's last segment, ':/content'
IsRemotePathOf(u, folderName, file) ==
    \E n \in RandomSample :
        u = SharepointFolder \o <<":", "/">> \o folderName \o <<"/">>
              \o Encode(LastSegment(file), n)
              \o <<":", "/", "c", "o", "n", "t", "e", "n", "t">>

\* C8: when the local file exists and a later step of uploadFile fails (the
\* file read, or the PUT through the request pipeline), uploadFile raises
\* UploadError carrying the attempted remote path; no other kind of error
\* leaves uploadFile and a failure is never turned into a return value.
C8_UploadFailureIsUploadError ==
    (op = "uploadFile" /\ pc = "idle") =>
        /\ result.kind = "throw" =>
              /\ result.error = "UploadError"
              /\ result.url = urlFile
              /\ IsRemotePathOf(result.url, obs.folderName, obs.file)
              /\ obs.fileExist = "yes"
        /\ (obs.readFile = "rejected" \/ apiResult.kind = "throw") =>
              /\ result.kind = "throw"
              /\ result.error = "UploadError"
        /\ ApiEnded => (call.method = "PUT" /\ call.url = urlFile /\ sent.url = urlFile)

\* uploadFile wrapped the MaxRetriesExceededError of its PUT of a reserved name
C8_Witness ==
    /\ op = "uploadFile"
    /\ pc = "idle"
    /\ obs.file = <<"C", "O", "N">>
    /\ apiResult.error = "MaxRetriesExceededError"
    /\ result.error = "UploadError"
    /\ result.url = urlFile

\* C9: signIn with an access token present only probes GET 'me' through the
\* request pipeline: no prompt and no authorization-code exchange. The prompt,
\* followed by the code exchange, happens only when no access token is
\* present, and an exchange answered with tokens sets both tokens from it.
C9_SignInSkipsPromptWithToken ==
    op = "signIn" =>
        /\ obs.startAccess # NULL =>
              /\ obs.prompts = 0
              /\ obs.codeExchanges = 0
              /\ msCode = obs.startCode
              /\ obs.attempts >= 1
              /\ call = [method |-> "GET", url |-> MePath]
              /\ sent.method = "GET" /\ sent.url = MePath
              /\ pc = "idle" =>
                    result = (IF apiResult.kind = "throw" THEN apiResult ELSE ReturnVoid)
        /\ obs.startAccess = NULL =>
              /\ obs.prompts = 1
              /\ obs.http = 0
              /\ obs.refreshes = 0
              /\ obs.codeExchanges = (IF pc = "prompt" THEN 0 ELSE 1)
        /\ (obs.codeExchanges = 1 /\ obs.answer = "tokens") =>
              /\ msAccessToken = obs.granted
              /\ msRefreshToken = obs.grantedRefresh
              /\ msAccessToken # NULL /\ msRefreshToken # NULL
              /\ result = ReturnVoid

\* signIn returned after its probe, with the pre-supplied token, never prompting
C9_Witness ==
    /\ op = "signIn"
    /\ pc = "idle"
    /\ obs.startAccess # NULL
    /\ obs.http >= 1
    /\ obs.prompts = 0
    /\ result = ReturnVoid

\* C10: after logout, whatever the state before it, the access token, the
\* refresh token and the pending authorization code are all null.
C10_LogoutClearsAll ==
    op = "logout" =>
        /\ msCode = NULL
        /\ msAccessToken = NULL
        /\ msRefreshToken = NULL

\* logout ran while all three were set
C10_Witness ==
    /\ op = "logout"
    /\ obs.startCode # NULL
    /\ obs.startAccess # NULL
    /\ obs.startRefresh # NULL
    /\ msAccessToken = NULL

\* the parameter was left out of the constructor's argument, or is empty
LeftOut(v) == v = NULL \/ v = ""

C12_TokenMakesClientAndSecretOptional ==
    (pc # "new" /\ params.token # NULL) =>
        /\ pc # "failed"
        /\ op = "constructor" => msAccessToken = params.token

\* the method of NormalizeUtils has been called on the text
Called(m) == m \in norm.did

\* the characters a normalized name must not contain
ForbiddenChars ==
    {"\"", "{", "}", "*", ":", "<", ">", "?", "/", "%", "+", "|", "\n", "\r", "\t"}

\* the reserved names of the storage system
ReservedNames ==
    { <<".", "l", "o", "c", "k">>,
      <<"C", "O", "N">>,
      <<"P", "R", "N">>,
      <<"A", "U", "X">>,
      <<"N", "U", "L">>,
      <<"_", "v", "t", "i", "_">>,
      <<"d", "e", "s", "k", "t", "o", "p", ".", "i", "n", "i">>,
      <<"C", "O", "M", "0">>,
      <<"C", "O", "M", "1">>,
      <<"C", "O", "M", "2">>,
      <<"C", "O", "M", "3">>,
      <<"C", "O", "M", "4">>,
      <<"C", "O", "M", "5">>,
      <<"C", "O", "M", "6">>,
      <<"C", "O", "M", "7">>,
      <<"C", "O", "M", "8">>,
      <<"C", "O", "M", "9">>,
      <<"L", "P", "T", "0">>,
      <<"L", "P", "T", "1">>,
      <<"L", "P", "T", "2">>,
      <<"L", "P", "T", "3">>,
      <<"L", "P", "T", "4">>,
      <<"L", "P", "T", "5">>,
      <<"L", "P", "T", "6">>,
      <<"L", "P", "T", "7">>,
      <<"L", "P", "T", "8">>,
      <<"L", "P", "T", "9">> }

\* out is name followed by one or more decimal digits
HasDigitSuffix(out, name) ==
    /\ Len(out) > Len(name)
    /\ SubSeq(out, 1, Len(name)) = name
    /\ \A i \in (Len(name) + 1)..Len(out) :
          out[i] \in {"0", "1", "2", "3", "4", "5", "6", "7", "8", "9"}

\* how many characters of text are in chars
CountOf(text, chars) == Cardinality({i \in 1..Len(text) : text[i] \in chars})

\* the length of the first run of characters of chars in text (0: there is none)
FirstRunLength(text, chars) ==
    LET at == {i \in 1..Len(text) : text[i] \in chars}
    IN IF at = {}
       THEN 0
       ELSE LET i == CHOOSE k \in at : \A m \in at : k <= m
            IN Cardinality({k \in i..Len(text) : \A m \in i..k : text[m] \in chars})

\* what collapsing a run of r characters to one character removes
Collapsed(r) == IF r = 0 THEN 0 ELSE r - 1

\* C13: whatever the text, normalize(text) contains none of the characters
\* " { } * : < > ? / % + | and no newline, carriage return or tab.
C13_NormalizeHasNoForbiddenChar ==
    Called("normalize") =>
        \A i \in 1..Len(norm.normalized) : norm.normalized[i] \notin ForbiddenChars

\* a text with every one of the punctuation characters, some of them twice
C13_Witness ==
    /\ Called("normalize")
    /\ norm.text = <<"a", "\"", "{", "}", "*", ":", "<", ">", "?", "/", "%", "+", "|", "b">>
    /\ norm.normalized = <<"a", "b">>

\* C14: whatever the text and whatever the random number drawn,
\* normalize(text) is not a reserved name.
C14_NormalizeIsNeverReserved ==
    Called("normalize") => norm.normalized \notin ReservedNames

\* ' .lock' is trimmed to the reserved name '.lock', which gets a suffix
C14_Witness ==
    /\ Called("normalize")
    /\ norm.text = <<" ", ".", "l", "o", "c", "k">>
    /\ norm.normalized = <<".", "l", "o", "c", "k", "1", "0", "0", "0">>

\* C15: for each reserved name R, normalize(R) is R followed by one or more
\* decimal digits.  normalize('.lock') is 'lock' and normalize('_vti_') is
\* 'vti' followed by digits, so this fails.
C15_ReservedNameGetsDigitSuffix ==
    (Called("normalize") /\ norm.text \in ReservedNames) =>
        HasDigitSuffix(norm.normalized, norm.text)

\* C15, as the code has it: normalize('.lock') is 'lock' (the leading period
\* is stripped before the names are looked up), normalize('_vti_') is 'vti'
\* followed by one or more decimal digits, and for every other reserved name
\* R normalize(R) is R followed by one or more decimal digits.
C15_ReservedNameIsRenamed ==
    (Called("normalize") /\ norm.text \in ReservedNames) =>
        CASE norm.text = <<".", "l", "o", "c", "k">> -> norm.normalized = <<"l", "o", "c", "k">>
          [] norm.text = <<"_", "v", "t", "i", "_">> -> HasDigitSuffix(norm.normalized, <<"v", "t", "i">>)
          [] OTHER -> HasDigitSuffix(norm.normalized, norm.text)

\* 'desktop.ini', with the random number 7 drawn
C15_Witness ==
    /\ Called("normalize")
    /\ norm.text = <<"d", "e", "s", "k", "t", "o", "p", ".", "i", "n", "i">>
    /\ norm.normalized = <<"d", "e", "s", "k", "t", "o", "p", ".", "i", "n", "i", "7">>

\* C16: decode(encode(s)) is normalize(s) for every text s that holds none of
\* the characters normalize removes or replaces and no reserved name, texts
\* with spaces and other characters that percent-encoding escapes included.
\* decode normalizes its argument first, which removes the '%' of every
\* escape, so this fails.
C16_DecodeEncodeRoundTrip ==
    ( /\ Called("normalize")
      /\ Called("decode")
      /\ \A i \in 1..Len(norm.text) : norm.text[i] \notin ForbiddenChars \cup {"&"}
      /\ norm.normalized = norm.text )
    => norm.decoded = norm.normalized

\* C17: the period collapse, the period strip and the whitespace collapse of
\* normalize act once: 'te...st' gives 'te.st', '.test' and 'test.' give
\* 'test'; for a text of letters, periods and spaces, only the first run of
\* periods loses its extra periods and at most one more period is stripped,
\* at an end of the text (the leading one if there is one: a text that also
\* ends with a period keeps that one); and when nothing is trimmed, only the
\* first run of spaces loses its extra spaces.
C17_ReplaceFirstOnly ==
    Called("normalize") =>
        /\ norm.text = <<"t", "e", ".", ".", ".", "s", "t">> => norm.normalized = <<"t", "e", ".", "s", "t">>
        /\ norm.text = <<".", "t", "e", "s", "t">> => norm.normalized = <<"t", "e", "s", "t">>
        /\ norm.text = <<"t", "e", "s", "t", ".">> => norm.normalized = <<"t", "e", "s", "t">>
        /\ (\A i \in 1..Len(norm.text) : norm.text[i] \in {"a", ".", " "}) =>
              LET text == norm.text
                  out == norm.normalized
                  atEnd == text # <<>> /\ (Head(text) = "." \/ text[Len(text)] = ".")
              IN /\ CountOf(out, {"."}) =
                        CountOf(text, {"."}) - Collapsed(FirstRunLength(text, {"."}))
                            - (IF atEnd THEN 1 ELSE 0)
                 /\ ( /\ text # <<>>
                      /\ Head(text) = "."
                      /\ text[Len(text)] = "."
                      /\ \E i \in 1..Len(text) : text[i] # "." )
                    => (out # <<>> /\ out[Len(out)] = ".")
                 /\ (text # <<>> /\ Head(text) = "a" /\ text[Len(text)] = "a") =>
                        CountOf(out, {" "}) =
                            CountOf(text, {" "}) - Collapsed(FirstRunLength(text, {" "}))

\* a text with two runs of two periods: the second run is left as it is
C17_Witness ==
    /\ Called("normalize")
    /\ norm.text = <<"a", ".", ".", "b", ".", ".", "c">>
    /\ norm.normalized = <<"a", ".", "b", ".", ".", "c">>

\* C18: the attempt of a call that first receives a payload without an error
\* ends the call: #requestGraphApi returns exactly that payload, the failures
\* of the attempts before it (at most two) surface nowhere, and no further
\* attempt is made.
C18_FailuresWithinBoundAreAbsorbed ==
    (apiResponse # NoBody /\ ~apiResponse.hasError) =>
        /\ pc = "idle"
        /\ apiResponse = response.body
        /\ apiResult = Return(apiResponse)
        /\ result.kind # "throw"
        /\ op \in {"request", "uploadFile"} => result = Return(apiResponse)
        /\ obs.attempts = obs.fails + 1
        /\ obs.attempts <= 3

\* a request whose first two attempts failed and whose third was answered well
C18_Witness ==
    /\ op = "request"
    /\ obs.attempts = 3
    /\ obs.fails = 2
    /\ apiResponse.id = 1
    /\ result = Return(apiResponse)

\* C19: once the client is constructed, a step changes the access token or
\* the refresh token only if it is logout(), which leaves both null, or the
\* step in which a token exchange (of signIn or of a refresh) is answered
\* without error, which leaves both as the answer gave them; issuing a
\* request, receiving a response, the retry bookkeeping, the null return,
\* the max-retries error and uploadFile's filesystem steps change neither.
C19_TokensChangeOnlyByExchangeOrLogout ==
    [][ (pc # "new" /\ (msAccessToken' # msAccessToken \/ msRefreshToken' # msRefreshToken)) =>
          \/ /\ pc = "idle"
             /\ op' = "logout"
             /\ msAccessToken' = NULL
             /\ msRefreshToken' = NULL
          \/ /\ pc = "token"
             /\ obs'.answer = "tokens"
             /\ obs'.exchange = "ok"
             /\ msAccessToken' = obs'.granted
             /\ msRefreshToken' = obs'.grantedRefresh ]_vars

\* an upload that read its file, was answered three times with an error and
\* ended in UploadError, the tokens being what they were when it began
C19_Witness ==
    /\ op = "uploadFile"
    /\ pc = "idle"
    /\ obs.readFile = "resolved"
    /\ obs.fails = 3
    /\ obs.refreshes = 0
    /\ result.kind = "throw"
    /\ msAccessToken = "tokB"
    /\ msAccessToken = obs.startAccess
    /\ msRefreshToken = obs.startRefresh

C21_RequestTerminatesWithinBounds ==
    /\ [](op = "request" =>
            /\ obs.attempts <= 3
            /\ obs.http <= 6
            /\ obs.refreshes <= 3
            /\ obs.http <= 2 * obs.attempts
            /\ obs.refreshes <= obs.attempts)
    /\ (op = "request" /\ pc # "idle")
          ~> (op = "request" /\ pc = "idle" /\ result.kind \in {"return", "null", "throw"})

\* a request that ended after 3 attempts, 6 requests and 3 refresh exchanges
C21_Witness ==
    /\ op = "request"
    /\ pc = "idle"
    /\ obs.attempts = 3
    /\ obs.http = 6
    /\ obs.refreshes = 3
    /\ result = MaxRetriesError(call)

====
